---- MODULE Spec2Model ----
(***************************************************************************)
(* Session-state synchronisation of OrionTV: the zustand auth store        *)
(* (checkLoginStatus, logout, startLinuxDoOAuth, handleOAuthCallback,      *)
(* clearOAuthUrl) and the root layout's deep-link dispatch.                *)
(*                                                                         *)
(* The repository holds several builds of the store and of the layout.     *)
(* storeV and layoutV name the build that is running; they are chosen in   *)
(* Init and never change.                                                  *)
(*   store  "P0"  src/unnamed/part_000                                     *)
(*          "P1"  src/unnamed/part_001                                     *)
(*          "P2"  src/unnamed/part_002                                     *)
(*          "A"   src/stores/authStore.ts, lines 1-346                     *)
(*          "B"   src/stores/authStore.ts, lines 348-682                   *)
(*   layout "L1"  src/app/_layout.tsx, lines 1-293                         *)
(*          "L2"  src/app/_layout.tsx, lines 295-518                       *)
(*                                                                         *)
(* Every async function is a task: one step of a task is the synchronous   *)
(* code between two awaits.  Steps of different tasks interleave freely    *)
(* (single JavaScript thread, cooperative suspension).                     *)
(***************************************************************************)
EXTENDS Integers, Sequences, FiniteSets, TLC

VARIABLES
    storeV,      \* the store build
    layoutV,     \* the layout build
    conc,        \* how many task slots the run may use
    auth,        \* the zustand state of useAuthStore
    settings,    \* useSettingsStore: apiBaseUrl, serverConfig, isLoadingServerConfig
    cookieAuth,  \* the platform cookie store holds the auth cookie
    launch,      \* cold-launch URL: "none", "pending" (getInitialURL not yet handled), "handled"
    tasks        \* the async operations in flight

vars == <<storeV, layoutV, conc, auth, settings, cookieAuth, launch, tasks>>

----------------------------------------------------------------------------
(* Bounds *)

\* task slots: operations that may be in flight at once under SpecConc
NumTasks == 2

----------------------------------------------------------------------------
(* Program constants *)

maxWaitTime   == 3000
checkInterval == 100
maxRetriesP0  == 6
maxRetriesP1  == 5
maxAttemptsP1 == 5

StoreBuilds  == {"P0", "P1", "P2", "A", "B"}
LayoutBuilds == {"L1", "L2"}

\* layout L2 hands the callback to the store's handleOAuthCallback; layout L1
\* handles it itself and is run with the store of part_000
Builds == (StoreBuilds \X {"L2"}) \cup {<<"P0", "L1">>}

\* number of Cookies.get attempts of one checkLoginStatus
maxRetries(v) ==
    CASE v = "P0" -> maxRetriesP0
      [] v = "P1" -> maxRetriesP1
      [] OTHER    -> 1

----------------------------------------------------------------------------
(* Text: a string is a sequence of characters; a fixed message of the      *)
(* program is one opaque token.                                            *)

Undefined == "undefined"

\* the bytes the model's percent-escapes denote
HexByte == (<<"2", "5">> :> "%") @@ (<<"4", "1">> :> "A")

IsEscapeAt(s) == Len(s) >= 3 /\ s[1] = "%" /\ <<s[2], s[3]>> \in DOMAIN HexByte

\* URLSearchParams percent-decoding: an invalid escape is kept as it is
RECURSIVE searchParamDecode(_)
searchParamDecode(s) ==
    IF s = <<>> THEN <<>>
    ELSE IF IsEscapeAt(s)
         THEN <<HexByte[<<s[2], s[3]>>]>> \o searchParamDecode(SubSeq(s, 4, Len(s)))
         ELSE <<Head(s)>> \o searchParamDecode(Tail(s))

\* decodeURIComponent: an invalid escape throws URIError
RECURSIVE uriWellFormed(_)
uriWellFormed(s) ==
    IF s = <<>> THEN TRUE
    ELSE IF s[1] = "%"
         THEN IsEscapeAt(s) /\ uriWellFormed(SubSeq(s, 4, Len(s)))
         ELSE uriWellFormed(Tail(s))

decodeURIComponent(s) ==
    IF uriWellFormed(s) THEN [ok |-> TRUE, val |-> searchParamDecode(s)]
    ELSE [ok |-> FALSE, val |-> <<"URI malformed">>]

Contains(text, sub) ==
    \E k \in 0..(Len(text) - Len(sub)) : SubSeq(text, k + 1, k + Len(sub)) = sub

----------------------------------------------------------------------------
(* URLs delivered by the operating system.  parse: new URL(url) succeeds;  *)
(* scheme: url.startsWith('oriontv://oauth/callback'); path: the pathname   *)
(* includes '/oauth/callback'; the other fields are the raw query values    *)
(* (<<>> : the parameter is absent).                                        *)

NoParam == <<>>

MkUrl(parse, scheme, path, success, token, error, code, state) ==
    [parse |-> parse, scheme |-> scheme, path |-> path, success |-> success,
     token |-> token, error |-> error, code |-> code, state |-> state]

ErrDenied  == <<"access_denied">>
ErrDouble  == <<"%", "2", "5", "4", "1">>
ErrPercent == <<"1", "0", "0", "%", "2", "5">>

UrlBare      == MkUrl(TRUE, TRUE, TRUE, NoParam, NoParam, NoParam, NoParam, NoParam)
UrlToken     == MkUrl(TRUE, TRUE, TRUE, <<"true">>, <<"tok">>, NoParam, NoParam, NoParam)
UrlNoToken   == MkUrl(TRUE, TRUE, TRUE, <<"true">>, NoParam, NoParam, NoParam, NoParam)
UrlError     == MkUrl(TRUE, TRUE, TRUE, NoParam, NoParam, ErrDenied, NoParam, NoParam)
UrlErrToken  == MkUrl(TRUE, TRUE, TRUE, <<"true">>, <<"tok">>, ErrDenied, NoParam, NoParam)
UrlErrDouble == MkUrl(TRUE, TRUE, TRUE, NoParam, NoParam, ErrDouble, NoParam, NoParam)
UrlErrPct    == MkUrl(TRUE, TRUE, TRUE, NoParam, NoParam, ErrPercent, NoParam, NoParam)
UrlCode      == MkUrl(TRUE, TRUE, TRUE, NoParam, NoParam, NoParam, <<"c">>, <<"s">>)
UrlWebError  == MkUrl(TRUE, FALSE, TRUE, NoParam, NoParam, ErrDenied, NoParam, NoParam)
UrlOther     == MkUrl(TRUE, FALSE, FALSE, NoParam, NoParam, NoParam, NoParam, NoParam)
UrlBad       == MkUrl(FALSE, FALSE, TRUE, NoParam, NoParam, NoParam, NoParam, NoParam)

Urls == {UrlBare, UrlToken, UrlNoToken, UrlError, UrlErrToken, UrlErrDouble,
         UrlErrPct, UrlCode, UrlWebError, UrlOther, UrlBad}

\* two more URLs for the classification alone: 'https://host/oauth/callback'
\* without a query, and 'https://host/page?error=access_denied'
UrlPathOnly  == MkUrl(TRUE, FALSE, TRUE, NoParam, NoParam, NoParam, NoParam, NoParam)
UrlErrorOnly == MkUrl(TRUE, FALSE, FALSE, NoParam, NoParam, ErrDenied, NoParam, NoParam)

ClassifiedUrls == Urls \cup {UrlPathOnly, UrlErrorOnly}

\* urlObj.searchParams.get(name): the decoded value, <<>> standing for null
searchParamsGet(u, name) == searchParamDecode(u[name])

Truthy(s) == s # <<>>

----------------------------------------------------------------------------
(* State *)

StorageTypes == {"none", "localstorage", "redis"}

InitAuth ==
    [isLoggedIn |-> FALSE, isLoginModalVisible |-> FALSE,
     isRegisterModalVisible |-> FALSE, isOAuthInProgress |-> FALSE,
     oAuthUrl |-> Undefined, currentUser |-> Undefined]

\* a task slot: op is the top-level operation, pc the await it is suspended
\* at, the rest are the locals of the functions on its stack and what the
\* operation has done so far (exchanged: "no", "sent", "ok", "failed" for the
\* exchange request; probes: Cookies.get calls settled; sawAuth: one of them
\* reported the auth cookie; checks: calls of checkLoginStatus; cancelled:
\* clearOAuthUrl was called while this callback handler was in its probe loop;
\* regResult: what the server answered to the registration request)
IdleTask ==
    [op |-> "idle", pc |-> "idle", url |-> UrlOther, isLaunch |-> FALSE,
     apiArg |-> FALSE, cfg |-> "none", wasLoading |-> FALSE, waitTime |-> 0,
     i |-> 0, cookies |-> "null", loginResult |-> "none", link |-> "none",
     result |-> "none", toasts |-> {}, probes |-> 0, sawAuth |-> FALSE,
     checks |-> 0, exchanged |-> "no", cleared |-> FALSE, fetched |-> FALSE,
     opened |-> FALSE, wasInProgress |-> FALSE, wasLoggedIn |-> FALSE,
     cancelled |-> FALSE, regResult |-> "none"]

TaskIds == 1..NumTasks

InFlight(t) == t.pc \notin {"idle", "done"}

Toast(text1, text2) == [text1 |-> text1, text2 |-> text2]

Say(t, text1, text2) == [t EXCEPT !.toasts = @ \cup {Toast(text1, text2)}]

----------------------------------------------------------------------------
(* A step of a task yields the new store state and the new task. *)

Out(a, t) == [a |-> a, t |-> t]

\* the operation returns: the locals of its frames are dead
Done(t, r) ==
    [t EXCEPT !.pc = "done", !.result = r, !.i = 0, !.waitTime = 0,
              !.apiArg = FALSE, !.cfg = "none", !.wasLoading = FALSE,
              !.link = "none", !.wasLoggedIn = FALSE, !.cookies = "null",
              !.cancelled = FALSE]

----------------------------------------------------------------------------
(* The layout's handleOAuthDeepLink around the store's handleOAuthCallback *)
(* (L2): the store handler returned r.                                     *)

handleOAuthDeepLinkReturn(a, t, r) ==
    IF r = "true"
    THEN Out(a, Done(Say(t, "LoginOk", <<"OAUTH_DONE">>), r))
    ELSE Out(a, Done(Say(t, "LoginFailed", <<"OAUTH_RETRY">>), r))

\* every failure path of build P0/P1 has already reset the OAuth fields at
\* the top of handleOAuthCallback; builds A, B and P2 reset isOAuthInProgress
\* on each failure path
failReset(v, a) ==
    IF v \in {"A", "B", "P2"} THEN [a EXCEPT !.isOAuthInProgress = FALSE] ELSE a

\* a success branch that also stores the user of the session
handleOAuthCallbackAfterCheckStoresUser(v, a, t) ==
    handleOAuthDeepLinkReturn(
        [a EXCEPT !.isLoggedIn = TRUE, !.isLoginModalVisible = FALSE,
                  !.isOAuthInProgress = FALSE, !.oAuthUrl = Undefined,
                  !.currentUser = "user"],
        Say(t, "OAuthSuccess", <<>>), "true")

\* handleOAuthCallback after `await get().checkLoginStatus(apiBaseUrl)`
handleOAuthCallbackAfterCheck(v, a, t) ==
    LET ok == Say(t, "OAuthSuccess", <<>>) IN
    CASE v = "P0" ->
           IF a.isLoggedIn
           THEN handleOAuthDeepLinkReturn(
                    [a EXCEPT !.isLoginModalVisible = FALSE], ok, "true")
           ELSE handleOAuthDeepLinkReturn(
                    [a EXCEPT !.isLoggedIn = TRUE, !.isLoginModalVisible = FALSE],
                    ok, "true")
      [] v = "P1" -> handleOAuthDeepLinkReturn(a, ok, "true")
      [] v = "A"  -> handleOAuthDeepLinkReturn(a, ok, "true")
      [] v = "B"  ->
           handleOAuthDeepLinkReturn(
               [a EXCEPT !.isOAuthInProgress = FALSE, !.isLoginModalVisible = FALSE,
                         !.oAuthUrl = Undefined], ok, "true")
      [] v = "P2" ->
           handleOAuthDeepLinkReturn(
               [a EXCEPT !.isOAuthInProgress = FALSE, !.isLoginModalVisible = FALSE],
               ok, "true")

\* layout L1 after `await authStore.checkLoginStatus(apiBaseUrl)`: authStore
\* is the state object read before the check, so authStore.isLoggedIn is the
\* value of that moment (t.wasLoggedIn)
layoutAfterCheck(a, t) ==
    IF t.wasLoggedIn
    THEN Out(a, Done(Say(t, "OAuthSuccess", <<>>), "true"))
    ELSE Out([a EXCEPT !.isLoggedIn = TRUE, !.isLoginModalVisible = FALSE],
             Done(Say(t, "OAuthSuccess", <<>>), "true"))

\* checkLoginStatus returns to its caller
checkReturn(v, l, a, t) ==
    CASE t.op = "check" -> Out(a, Done(t, "void"))
      [] t.op = "deeplink" /\ l = "L2" -> handleOAuthCallbackAfterCheck(v, a, t)
      [] t.op = "deeplink" /\ l = "L1" -> layoutAfterCheck(a, t)

----------------------------------------------------------------------------
(* checkLoginStatus *)

\* the catch block of checkLoginStatus, for an error that is not UNAUTHORIZED
checkCatch(v, l, a, t) ==
    checkReturn(v, l, [a EXCEPT !.isLoggedIn = FALSE], t)

\* `if (!serverConfig?.StorageType)` and the start of the cookie retrieval
checkConfig(v, l, a, t) ==
    IF t.cfg = "none"
    THEN IF ~t.wasLoading
         THEN checkReturn(v, l, a, Say(t, "ConfigError", <<>>))
         ELSE checkReturn(v, l, a, t)
    ELSE Out(a, [t EXCEPT !.pc = "probe", !.i = 0, !.cookies = "null"])

\* entry of checkLoginStatus(apiBaseUrl) up to its first await; t.apiArg says
\* whether the argument is a non-empty address, s is useSettingsStore.getState()
checkEntry(v, l, a, t0, s) ==
    LET t == [t0 EXCEPT !.checks = @ + 1] IN
    IF ~t.apiArg
    THEN checkReturn(v, l, [a EXCEPT !.isLoggedIn = FALSE,
                                     !.isLoginModalVisible = FALSE], t)
    ELSE IF s.isLoadingServerConfig
         THEN Out(a, [t EXCEPT !.pc = "cfgWait", !.cfg = s.StorageType,
                               !.wasLoading = TRUE, !.waitTime = 0])
         ELSE checkConfig(v, l, a, [t EXCEPT !.cfg = s.StorageType,
                                            !.wasLoading = FALSE])

\* a wait loop that polls once more when the time is used up
checkConfigWaitOneMore(v, l, a, t0, s) ==
    LET t == [t0 EXCEPT !.waitTime = @ + checkInterval] IN
    IF ~s.isLoadingServerConfig
    THEN checkConfig(v, l, a, [t EXCEPT !.cfg = s.StorageType])
    ELSE IF t.waitTime <= maxWaitTime
         THEN Out(a, t)
         ELSE checkConfig(v, l, a, t)

\* one round of the wait loop: the 100 ms timer fired
checkConfigWait(v, l, a, t0, s) ==
    LET t == [t0 EXCEPT !.waitTime = @ + checkInterval] IN
    IF ~s.isLoadingServerConfig
    THEN checkConfig(v, l, a, [t EXCEPT !.cfg = s.StorageType])
    ELSE IF t.waitTime < maxWaitTime
         THEN Out(a, t)
         ELSE checkConfig(v, l, a, t)

\* a decision that never tries the auto-login
checkDecideCookieOnly(v, l, a, t) ==
    IF t.cookies = "auth"
    THEN checkReturn(v, l, [a EXCEPT !.isLoggedIn = TRUE], t)
    ELSE checkReturn(v, l, [a EXCEPT !.isLoggedIn = FALSE,
                                     !.isLoginModalVisible = TRUE], t)

\* a decision that hides the login modal when it finds the auth cookie
checkDecideHidesPrompt(v, l, a, t) ==
    IF t.cookies = "auth"
    THEN checkReturn(v, l, [a EXCEPT !.isLoggedIn = TRUE,
                                     !.isLoginModalVisible = FALSE], t)
    ELSE IF t.cfg = "localstorage"
         THEN Out(a, [t EXCEPT !.pc = "login"])
         ELSE checkReturn(v, l, [a EXCEPT !.isLoggedIn = FALSE,
                                          !.isLoginModalVisible = TRUE], t)

\* the code after the cookie retrieval: the branch on the storage type
checkDecide(v, l, a, t) ==
    LET hasAuth == t.cookies = "auth" IN
    IF v = "P0"
    THEN IF t.cfg = "localstorage"
         THEN IF ~hasAuth
              THEN Out(a, [t EXCEPT !.pc = "login"])
              ELSE checkReturn(v, l, [a EXCEPT !.isLoggedIn = TRUE], t)
         ELSE LET wasLoggedIn == a.isLoggedIn
                  a1 == [a EXCEPT !.isLoggedIn = hasAuth]
              IN  IF wasLoggedIn /\ ~hasAuth
                  THEN checkReturn(v, l, [a1 EXCEPT !.isLoginModalVisible = TRUE], t)
                  ELSE IF ~hasAuth /\ ~a.isLoginModalVisible
                       THEN checkReturn(v, l,
                                [a1 EXCEPT !.isLoginModalVisible = TRUE], t)
                       ELSE checkReturn(v, l, a1, t)
    ELSE IF t.cfg = "localstorage" /\ ~hasAuth
         THEN Out(a, [t EXCEPT !.pc = "login"])
         ELSE IF hasAuth
              THEN checkReturn(v, l, [a EXCEPT !.isLoggedIn = TRUE], t)
              ELSE checkReturn(v, l, [a EXCEPT !.isLoggedIn = FALSE,
                                               !.isLoginModalVisible = TRUE], t)

\* a probe that goes to the retry delay whatever it found
checkProbeAlwaysRetries(v, l, a, t0, r) ==
    Out(a, [t0 EXCEPT !.probes = @ + 1, !.pc = "retryDelay"])

\* a retry loop whose try block is outside the loop: a Cookies.get that
\* throws ends the check in the catch block
checkProbeAbortsOnThrow(v, l, a, t0, r) ==
    LET t == [t0 EXCEPT !.probes = @ + 1,
                        !.sawAuth = @ \/ (r = "auth")] IN
    IF r = "throw" THEN checkCatch(v, l, a, t)
    ELSE IF r = "auth" THEN checkDecide(v, l, a, [t EXCEPT !.cookies = "auth"])
    ELSE IF v \in {"P0", "P1"} /\ t.i < maxRetries(v) - 1
         THEN Out(a, [t EXCEPT !.cookies = "none", !.pc = "retryDelay"])
         ELSE checkDecide(v, l, a, [t EXCEPT !.cookies = "none"])

\* `await Cookies.get(...)` settled with r: "auth" (the cookies hold auth),
\* "none" (they do not) or "throw"
checkProbe(v, l, a, t0, r) ==
    LET t == [t0 EXCEPT !.probes = @ + 1,
                        !.sawAuth = @ \/ (r = "auth")] IN
    IF v \in {"P0", "P1"}
    THEN IF r = "auth"
         THEN checkDecide(v, l, a, [t EXCEPT !.cookies = "auth"])
         ELSE LET t1 == IF r = "none" THEN [t EXCEPT !.cookies = "none"] ELSE t IN
              IF t.i < maxRetries(v) - 1
              THEN Out(a, [t1 EXCEPT !.pc = "retryDelay"])
              ELSE checkDecide(v, l, a, t1)
    ELSE IF r = "throw"
         THEN checkCatch(v, l, a, t)
         ELSE checkDecide(v, l, a, [t EXCEPT !.cookies = r])

\* the retry delay elapsed: the next round of the for loop
checkRetry(t) == [t EXCEPT !.i = @ + 1, !.pc = "probe"]

\* an auto-login whose {ok:false} answer inverts isLoggedIn
checkLoginFlipsOnFail(v, l, a, t0, r) ==
    LET t == [t0 EXCEPT !.loginResult = r] IN
    CASE r = "reject" ->
           checkReturn(v, l, [a EXCEPT !.isLoggedIn = FALSE,
                                       !.isLoginModalVisible = TRUE], t)
      [] r = "ok" -> checkReturn(v, l, [a EXCEPT !.isLoggedIn = TRUE], t)
      [] OTHER -> checkReturn(v, l, [a EXCEPT !.isLoggedIn = ~a.isLoggedIn], t)

\* `await api.login().catch(...)` settled with r: "ok" ({ok:true}), "fail"
\* ({ok:false}) or "reject"
checkLogin(v, l, a, t0, r) ==
    LET t == [t0 EXCEPT !.loginResult = r] IN
    CASE r = "reject" ->
           checkReturn(v, l, [a EXCEPT !.isLoggedIn = FALSE,
                                       !.isLoginModalVisible = TRUE], t)
      [] r = "ok" -> checkReturn(v, l, [a EXCEPT !.isLoggedIn = TRUE], t)
      [] OTHER -> checkReturn(v, l, a, t)

\* API.login request by request.  What the first POST of /api/login may
\* meet: a 2xx answer with {ok:true} or {ok:false}, a 401, another status
\* that is not 2xx, or no answer
LoginResponses == {"ok", "fail", "unauthorized", "httpError", "network"}

\* what the second POST, sent after a 401, may meet: a 401 again, another
\* status, or no answer
LoginRetryResponses == {"unauthorized", "other", "throw"}

\* the request of this._fetch("/api/login") settled with r: _fetch throws
\* UNAUTHORIZED on a 401, and login then posts the credentials again to read
\* the error text; every other error is rethrown
apiLogin(v, l, a, t, r) ==
    CASE r = "unauthorized" -> Out(a, [t EXCEPT !.pc = "loginRetry"])
      [] r \in {"ok", "fail"} -> checkLogin(v, l, a, t, r)
      [] OTHER -> checkLogin(v, l, a, t, "reject")

\* the second request settled: whatever it met, login resolves with
\* {ok:false}
apiLoginRetry(v, l, a, t, r) == checkLogin(v, l, a, t, "fail")

\* one whole checkLoginStatus(apiBaseUrl) called from store state a, every
\* Cookies.get of it settling with cr and its api.login() with lr, no other
\* code running in between: the store state and the record of the run when
\* it returns
RECURSIVE runCheck(_, _, _, _, _, _)
runCheck(v, a, t, s, cr, lr) ==
    IF ~InFlight(t) THEN Out(a, t)
    ELSE LET o == CASE t.pc = "probe"      -> checkProbe(v, "L2", a, t, cr)
                    [] t.pc = "retryDelay" -> Out(a, checkRetry(t))
                    [] t.pc = "login"      -> checkLogin(v, "L2", a, t, lr)
                    [] t.pc = "cfgWait"    -> checkConfigWait(v, "L2", a, t, s)
         IN  runCheck(v, o.a, o.t, s, cr, lr)

checkLoginStatus(v, a, s, cr, lr) ==
    LET t == [IdleTask EXCEPT !.op = "check", !.apiArg = s.apiBaseUrl]
        o == checkEntry(v, "L2", a, t, s)
    IN  runCheck(v, o.a, o.t, s, cr, lr)

CookieAnswers == {"auth", "none", "throw"}
LoginAnswers  == {"ok", "fail", "reject"}

----------------------------------------------------------------------------
(* handleOAuthCallback of the store *)

\* the catch block of handleOAuthCallback; msg is error.message
handleOAuthCallbackCatch(v, a, t, msg) ==
    IF v = "P0"
    THEN handleOAuthDeepLinkReturn(a, Say(t, "CallbackFailed", msg), "false")
    ELSE handleOAuthDeepLinkReturn(failReset(v, a),
             Say(t, "CallbackFailed", <<"NETWORK_OR_SERVER">>), "false")

\* the `error` parameter of an 'oriontv://oauth/callback' link (and, in P0,
\* of any link): the toast shows decodeURIComponent(error)
showDecodedError(v, a, t, error) ==
    LET d == decodeURIComponent(error) IN
    IF d.ok
    THEN handleOAuthDeepLinkReturn(failReset(v, a),
             Say(t, "AuthFailed", d.val), "false")
    ELSE handleOAuthCallbackCatch(v, a, t, d.val)

\* _handleSuccessfulOAuth of P1 up to its setTimeout
handleSuccessfulOAuth(a, t) ==
    Out([a EXCEPT !.isLoggedIn = TRUE, !.isOAuthInProgress = FALSE,
                  !.isLoginModalVisible = FALSE, !.oAuthUrl = Undefined],
        [t EXCEPT !.pc = "successDelay"])

\* the success branch of builds A, B, P2 and P1
callbackSuccess(v, l, a, t, s) ==
    CASE v = "P1" -> handleSuccessfulOAuth(a, t)
      [] v = "A"  ->
           checkEntry(v, l,
               [a EXCEPT !.isLoggedIn = TRUE, !.isOAuthInProgress = FALSE,
                         !.isLoginModalVisible = FALSE, !.oAuthUrl = Undefined],
               [t EXCEPT !.apiArg = s.apiBaseUrl], s)
      [] OTHER    -> checkEntry(v, l, a, [t EXCEPT !.apiArg = s.apiBaseUrl], s)

\* builds A, B, P1, P2 after the deep-link block: the code/state callback
callbackCodeFlow(v, a, t) ==
    LET u == t.url IN
    IF Truthy(searchParamsGet(u, "error"))
    THEN handleOAuthDeepLinkReturn(failReset(v, a),
             Say(t, "AuthFailed", <<"DENIED_GENERIC">>), "false")
    ELSE IF ~Truthy(searchParamsGet(u, "code")) \/ ~Truthy(searchParamsGet(u, "state"))
         THEN handleOAuthDeepLinkReturn(failReset(v, a),
                  Say(t, "ParamError", <<"PARAMS_MISSING">>), "false")
         ELSE Out(a, [t EXCEPT !.pc = "exchange", !.exchanged = "sent"])

\* handleOAuthCallback(url) up to its first await
handleOAuthCallback(v, l, a, t, s) ==
    LET u == t.url
        error   == searchParamsGet(u, "error")
        success == searchParamsGet(u, "success")
        token   == searchParamsGet(u, "token")
        reset   == [a EXCEPT !.isOAuthInProgress = FALSE, !.oAuthUrl = Undefined]
    IN
    IF ~u.parse THEN handleOAuthCallbackCatch(v, a, t, <<"Invalid URL">>)
    ELSE IF v = "P0"
    THEN IF Truthy(error) THEN showDecodedError(v, reset, t, error)
         ELSE IF success = <<"true">> /\ Truthy(token)
              THEN IF ~s.apiBaseUrl
                   THEN handleOAuthDeepLinkReturn(reset,
                            Say(t, "LoginFailed", <<"NO_SERVER">>), "false")
                   ELSE checkEntry(v, l, reset, [t EXCEPT !.apiArg = TRUE], s)
              ELSE handleOAuthDeepLinkReturn(reset,
                       Say(t, "ParamError", <<"TOKEN_MISSING">>), "false")
    ELSE LET a1 == IF v = "P1" THEN reset ELSE a IN
         IF u.scheme /\ success = <<"true">> THEN callbackSuccess(v, l, a1, t, s)
         ELSE IF u.scheme /\ Truthy(error) THEN showDecodedError(v, a1, t, error)
         ELSE callbackCodeFlow(v, a1, t)

\* `await api.handleOAuthCallback(code, state)` settled: r is "ok" or "fail"
\* (the API client catches every error and answers {ok:false})
callbackExchanged(v, l, a, t0, s, r) ==
    LET t == [t0 EXCEPT !.exchanged = IF r = "ok" THEN "ok" ELSE "failed"] IN
    IF r = "ok" THEN callbackSuccess(v, l, a, t, s)
    ELSE handleOAuthDeepLinkReturn(failReset(v, a),
             Say(t, "ExchangeFailed", <<"SERVER_ERROR">>), "false")

\* P1: the 1500 ms timer of _handleSuccessfulOAuth fired:
\* _waitForCookieAndRefreshStatus(apiBaseUrl) calls checkLoginStatus in a
\* loop of maxAttemptsP1 rounds that returns after the first call that does
\* not throw; checkLoginStatus catches every error, so the first attempt is
\* the only one
successDelayElapsed(v, l, a, t, s) ==
    checkEntry(v, l, a, [t EXCEPT !.apiArg = s.apiBaseUrl], s)

----------------------------------------------------------------------------
(* The layout's own handleOAuthDeepLink (L1) *)

\* the state object of the store has no member `set` in any build:
\* authStore.set(...) is a TypeError
storeHasSet(v) == FALSE

layoutHandle(v, a, t, s) ==
    LET u == t.url
        success == searchParamsGet(u, "success")
        token   == searchParamsGet(u, "token")
    IN
    IF ~u.parse
    THEN Out(a, Done(Say(t, "LinkFormat", <<"INVALID_LINK">>), "false"))
    ELSE IF success = <<"true">> /\ Truthy(token)
         THEN IF ~s.apiBaseUrl
              THEN Out(a, Done(Say(t, "LoginFailed", <<"API base URL not available">>),
                               "false"))
              ELSE Out(a, [t EXCEPT !.pc = "exchangeToken", !.exchanged = "sent"])
         ELSE Out(a, Done(Say(t, "AuthFailed", <<"LINK_WITHOUT_TOKEN">>), "false"))

\* the fetch of /api/oauth/exchange-token settled: r is "ok" (2xx with
\* success and cookie), "bad" (non-2xx or another body) or "reject"
layoutExchanged(v, a, t0, r) ==
    LET t == [t0 EXCEPT !.exchanged = IF r = "ok" THEN "ok" ELSE "failed",
                        !.wasLoggedIn = a.isLoggedIn] IN
    IF r # "ok"
    THEN Out(a, Done(Say(t, "LoginFailed", <<"EXCHANGE_ERROR">>), "false"))
    ELSE IF ~storeHasSet(v)
         THEN Out(a, Done(Say(t, "LoginFailed", <<"authStore.set is not a function">>),
                          "false"))
         ELSE Out([a EXCEPT !.isOAuthInProgress = FALSE, !.oAuthUrl = Undefined],
                  [t EXCEPT !.pc = "cookieDelay"])

\* the 500 ms wait elapsed
cookieDelayElapsed(v, l, a, t, s) ==
    checkEntry(v, l, a, [t EXCEPT !.apiArg = TRUE], s)

\* handleOAuthDeepLink(url, isLaunch) of the running layout
handleOAuthDeepLink(v, l, a, t, s) ==
    IF l = "L1" THEN layoutHandle(v, a, t, s)
    ELSE handleOAuthCallback(v, l, a, t, s)

\* the test that makes handleDeepLink / getInitialURL dispatch a URL
isOAuthCallback(l, u) ==
    IF l = "L1"
    THEN u.scheme \/ u.path \/ u.code # NoParam \/ u.state # NoParam
         \/ u.success # NoParam \/ u.token # NoParam
    ELSE IF u.parse
         THEN u.scheme \/ u.path \/ u.code # NoParam \/ u.state # NoParam
              \/ u.success # NoParam \/ u.token # NoParam \/ u.error # NoParam
         ELSE u.path

----------------------------------------------------------------------------
(* startLinuxDoOAuth *)

\* builds whose API client builds the authorization link itself
\* (src/services/api.ts); the others fetch it from the server
SyncLink(v) == v \in {"P0", "P1", "A"}

\* the catch block of startLinuxDoOAuth
startCatch(v, a, t) ==
    IF SyncLink(v)
    THEN Out([a EXCEPT !.isOAuthInProgress = FALSE, !.oAuthUrl = Undefined],
             Done(Say(t, "StartFailed", <<"LINK_ERROR">>), "void"))
    ELSE Out([a EXCEPT !.isOAuthInProgress = FALSE],
             Done(Say(t, "StartFailed", <<"LINK_ERROR">>), "void"))

\* the link is kept for manual copy; the attempt stays in progress
startManualCopy(a, t) ==
    Out([a EXCEPT !.oAuthUrl = t.link], Done(Say(t, "ManualCopy", <<>>), "void"))

\* the browser was opened
startOpened(v, a, t) ==
    IF SyncLink(v)
    THEN Out([a EXCEPT !.oAuthUrl = Undefined],
             Done(Say(t, "BrowserOpened", <<>>), "void"))
    ELSE Out(a, Done(Say(t, "BrowserOpened", <<>>), "void"))

\* startLinuxDoOAuth() up to its first await
startLinuxDoOAuth(v, a, t0, s) ==
    LET t  == [t0 EXCEPT !.wasInProgress = a.isOAuthInProgress]
        a1 == [a EXCEPT !.isOAuthInProgress = TRUE]
    IN
    IF SyncLink(v)
    THEN IF ~s.apiBaseUrl
         THEN startCatch(v, a1, t)
         ELSE Out(a1, [t EXCEPT !.link = "server", !.pc = "canOpen"])
    ELSE Out(a1, [t EXCEPT !.fetched = TRUE, !.pc = "fetchLink"])

\* the links api.startLinuxDoOAuth() may resolve with: "connect" is a URL on
\* connect.linux.do, "linuxdo" a URL on another host of linux.do, "foreign" a
\* URL on another domain, "mention" a URL on another domain whose query
\* holds the text connect.linux.do, "malformed" a text holding
\* connect.linux.do that is no URL
FetchedLinks == {"connect", "linuxdo", "foreign", "mention", "malformed"}

\* authorizeUrl.includes('connect.linux.do'), authorizeUrl.includes('linux.do')
includesConnectLinuxDo(k) == k \in {"connect", "mention", "malformed"}
includesLinuxDo(k) == includesConnectLinuxDo(k) \/ k = "linuxdo"

\* `await api.startLinuxDoOAuth()` settled (builds B, P2): r is the link or
\* "reject" (the request failed or the link is empty)
startFetched(v, a, t, r) ==
    LET valid == IF v = "P2" THEN includesConnectLinuxDo(r) ELSE includesLinuxDo(r) IN
    IF valid THEN Out(a, [t EXCEPT !.link = r, !.pc = "canOpen"])
    ELSE startCatch(v, a, t)

\* `await Linking.canOpenURL(authorizeUrl)` settled: "yes", "no" or "throw"
startCanOpen(v, a, t, r) ==
    IF r = "yes" THEN Out(a, [t EXCEPT !.opened = TRUE, !.pc = "open"])
    ELSE IF v = "P2" THEN Out(a, [t EXCEPT !.pc = "canOpenBrowser"])
    ELSE startManualCopy(a, t)

\* `await Linking.openURL(authorizeUrl)` settled: "ok" or "throw"
startOpen(v, a, t, r) ==
    IF r = "ok" THEN startOpened(v, a, t)
    ELSE IF v = "P2" THEN Out(a, [t EXCEPT !.pc = "canOpenBrowser"])
    ELSE startManualCopy(a, t)

\* P2, second way: canOpenURL / openURL of a plain web page
startCanOpenBrowser(a, t, r) ==
    IF r = "yes" THEN Out(a, [t EXCEPT !.opened = TRUE, !.pc = "openBrowser"])
    ELSE Out(a, [t EXCEPT !.opened = TRUE, !.pc = "openHttp"])

startOpenBrowser(v, a, t, r) ==
    IF r = "ok" THEN startOpened(v, a, t)
    ELSE Out(a, [t EXCEPT !.pc = "openHttp"])

\* P2, third way: openURL of the link with http in place of https
startOpenHttp(v, a, t, r) ==
    IF r = "ok" THEN startOpened(v, a, t) ELSE startManualCopy(a, t)

----------------------------------------------------------------------------
(* logout, clearOAuthUrl *)

\* `await api.logout()` settled, resolved or rejected: both the try block
\* and the catch block go on to `await Cookies.clearAll()`
logoutSettled(a, t, r) == Out(a, [t EXCEPT !.cleared = TRUE, !.pc = "clearAll"])

\* a logout that clears the cookies and the user but leaves isLoggedIn alone
logoutKeepsSession(a, t) ==
    Out([a EXCEPT !.isLoginModalVisible = TRUE, !.currentUser = Undefined],
        Done(t, "void"))

\* Cookies.clearAll() resolved
logoutCleared(a, t) ==
    Out([a EXCEPT !.isLoggedIn = FALSE, !.isLoginModalVisible = TRUE,
                  !.currentUser = Undefined],
        Done(t, "void"))

clearOAuthUrl(v, a) ==
    IF v = "P2" THEN [a EXCEPT !.oAuthUrl = Undefined]
    ELSE [a EXCEPT !.oAuthUrl = Undefined, !.isOAuthInProgress = FALSE]

----------------------------------------------------------------------------
(* register of the store around API.register *)

\* what /api/register answers: {success:true}, {success:true,
\* needsApproval:true}, {success:false, message}, the old format {ok:true}
\* and {ok:false}, a status that is neither 2xx nor 401, a 401, or no
\* answer at all
RegisterAnswers ==
    {"success", "approval", "refused", "legacyOk", "legacyFail", "httpError",
     "unauthorized", "network"}

\* the second request that API.register sends after an HTTP error: its status
\* is not 2xx again, it is 2xx this time, or the request fails
RetryAnswers == {"notOk", "ok", "throw"}

\* a register that treats an answer awaiting approval as a failure
registerResolvedUnlessApproval(a, t, res) ==
    IF res.ok /\ ~res.needsApproval
    THEN Out([a EXCEPT !.isRegisterModalVisible = FALSE,
                       !.isLoginModalVisible = TRUE],
             Done(Say(t, "RegisterOk", <<>>), "true"))
    ELSE Out(a, Done(Say(t, "RegisterFailed", <<"SERVER_MESSAGE">>), "false"))

\* the store's register after `await api.register(...)` resolved with res
registerResolved(a, t, res) ==
    IF res.ok
    THEN Out([a EXCEPT !.isRegisterModalVisible = FALSE,
                       !.isLoginModalVisible = TRUE],
             Done(Say(t, IF res.needsApproval THEN "RegisterPending"
                                              ELSE "RegisterOk", <<>>), "true"))
    ELSE Out(a, Done(Say(t, "RegisterFailed", <<"SERVER_MESSAGE">>), "false"))

\* a catch block that also closes the register modal
registerCatchClosesModal(a, t) ==
    Out([a EXCEPT !.isRegisterModalVisible = FALSE],
        Done(Say(t, "RegisterFailed", <<"ERROR_MESSAGE">>), "false"))

\* the catch block of the store's register
registerCatch(a, t) ==
    Out(a, Done(Say(t, "RegisterFailed", <<"ERROR_MESSAGE">>), "false"))

\* API.register: the request of this._fetch("/api/register") settled with r
apiRegister(a, t0, r) ==
    LET t == [t0 EXCEPT !.regResult = r] IN
    CASE r \in {"success", "approval"} ->
           registerResolved(a, t, [ok |-> TRUE, needsApproval |-> r = "approval"])
      [] r = "refused" ->
           registerResolved(a, t, [ok |-> FALSE, needsApproval |-> FALSE])
      [] r = "legacyOk" ->
           registerResolved(a, t, [ok |-> TRUE, needsApproval |-> FALSE])
      [] r = "legacyFail" ->
           registerResolved(a, t, [ok |-> FALSE, needsApproval |-> FALSE])
      [] r = "httpError" -> Out(a, [t EXCEPT !.pc = "registerRetry"])
      [] OTHER -> registerCatch(a, t)

\* API.register: the second request settled with r; anything but a status
\* that is not 2xx rethrows the first error
apiRegisterRetry(a, t, r) ==
    IF r = "notOk"
    THEN registerResolved(a, t, [ok |-> FALSE, needsApproval |-> FALSE])
    ELSE registerCatch(a, t)

----------------------------------------------------------------------------
(* Initial states *)

SettingsStates ==
    [apiBaseUrl : BOOLEAN, isLoadingServerConfig : BOOLEAN, StorageType : StorageTypes]

\* one operation at a time, every build, the server configuration loaded
Init ==
    /\ \E b \in Builds : storeV = b[1] /\ layoutV = b[2]
    /\ conc = 1
    /\ auth = InitAuth
    /\ settings \in {s \in SettingsStates : ~s.isLoadingServerConfig}
    /\ cookieAuth = FALSE
    /\ launch = "pending"
    /\ tasks = [id \in TaskIds |-> IdleTask]

\* the builds and the links of the runs in which operations overlap
ConcBuilds == {"P0"}
ConcUrls   == {UrlToken, UrlError}

DeliveredUrls == IF conc = 1 THEN Urls ELSE ConcUrls

\* operations overlap: the current store behind layout L2, a server that
\* keeps its data in the client (the one storage type with the auto-login)
InitConc ==
    /\ storeV \in ConcBuilds
    /\ layoutV = "L2"
    /\ conc = NumTasks
    /\ auth = InitAuth
    /\ settings \in {s \in SettingsStates :
                        s.apiBaseUrl /\ ~s.isLoadingServerConfig
                           /\ s.StorageType = "localstorage"}
    /\ cookieAuth = FALSE
    /\ launch = "pending"
    /\ tasks = [id \in TaskIds |-> IdleTask]

\* the app has just started: the settings store may still be loading the
\* server configuration of the configured server
InitLoading ==
    /\ \E b \in Builds : storeV = b[1] /\ layoutV = b[2]
    /\ conc = 1
    /\ auth = InitAuth
    /\ settings \in {s \in SettingsStates : s.apiBaseUrl}
    /\ cookieAuth = FALSE
    /\ launch = "pending"
    /\ tasks = [id \in TaskIds |-> IdleTask]

----------------------------------------------------------------------------
(* Actions *)

Build == <<storeV, layoutV, conc>>

\* the slot a new operation takes: the lowest one not in flight
IsFree(id) ==
    /\ id \in 1..conc
    /\ ~InFlight(tasks[id])
    /\ \A k \in 1..(id - 1) : InFlight(tasks[k])

NewTask(op, u) == [IdleTask EXCEPT !.op = op, !.url = u]

Apply(id, o) ==
    /\ auth' = o.a
    /\ tasks' = [tasks EXCEPT ![id] = o.t]

\* a new operation takes slot id: the records of the operations that have
\* returned are dropped
Begin(id, o) ==
    /\ auth' = o.a
    /\ tasks' = [k \in TaskIds |->
                    IF k = id THEN o.t
                    ELSE IF InFlight(tasks[k]) THEN tasks[k] ELSE IdleTask]

AtPc(id, pcs) == id \in 1..conc /\ tasks[id].pc \in pcs

\* RootLayout's effect on apiBaseUrl: checkLoginStatus(apiBaseUrl)
ServerAddressEffect ==
    /\ settings.apiBaseUrl
    /\ \E id \in TaskIds :
          /\ IsFree(id)
          /\ Begin(id, checkEntry(storeV, layoutV, auth,
                          [NewTask("check", UrlOther) EXCEPT !.apiArg = TRUE], settings))
    /\ UNCHANGED <<Build, settings, cookieAuth, launch>>

\* Linking's 'url' event: handleDeepLink
HandleDeepLink ==
    \E u \in DeliveredUrls, id \in TaskIds :
       /\ isOAuthCallback(layoutV, u)
       /\ IsFree(id)
       /\ Begin(id, handleOAuthDeepLink(storeV, layoutV, auth,
                       NewTask("deeplink", u), settings))
       /\ UNCHANGED <<Build, settings, cookieAuth, launch>>

\* Linking.getInitialURL() resolved with the URL the app was launched with
LaunchUrl ==
    /\ launch = "pending"
    /\ launch' = "handled"
    /\ \E u \in DeliveredUrls, id \in TaskIds :
          /\ isOAuthCallback(layoutV, u)
          /\ IsFree(id)
          /\ LET t == [NewTask("deeplink", u) EXCEPT !.isLaunch = TRUE] IN
             IF layoutV = "L2"
             THEN Begin(id, Out(auth, [t EXCEPT !.pc = "launchDelay"]))
             ELSE Begin(id, handleOAuthDeepLink(storeV, layoutV, auth, t, settings))
    /\ UNCHANGED <<Build, settings, cookieAuth>>

\* the user presses the LinuxDo login button
StartOAuth ==
    /\ \E id \in TaskIds :
          /\ IsFree(id)
          /\ Begin(id, startLinuxDoOAuth(storeV, auth, NewTask("start", UrlOther),
                                         settings))
    /\ UNCHANGED <<Build, settings, cookieAuth, launch>>

\* the user logs out
Logout ==
    /\ \E id \in TaskIds :
          /\ IsFree(id)
          /\ Begin(id, Out(auth, [NewTask("logout", UrlOther) EXCEPT !.pc = "apiLogout"]))
    /\ UNCHANGED <<Build, settings, cookieAuth, launch>>

\* the user dismisses the authorization link: clearOAuthUrl()
ClearOAuthUrl ==
    /\ auth' = clearOAuthUrl(storeV, auth)
    /\ tasks' = [id \in TaskIds |->
                    IF tasks[id].op = "deeplink"
                       /\ tasks[id].pc \in {"probe", "retryDelay"}
                    THEN [tasks[id] EXCEPT !.cancelled = TRUE]
                    ELSE tasks[id]]
    /\ UNCHANGED <<Build, settings, cookieAuth, launch>>

ShowLoginModal ==
    /\ auth' = [auth EXCEPT !.isLoginModalVisible = TRUE]
    /\ UNCHANGED <<Build, settings, cookieAuth, launch, tasks>>

HideLoginModal ==
    /\ auth' = [auth EXCEPT !.isLoginModalVisible = FALSE]
    /\ UNCHANGED <<Build, settings, cookieAuth, launch, tasks>>

ShowRegisterModal ==
    /\ auth' = [auth EXCEPT !.isRegisterModalVisible = TRUE]
    /\ UNCHANGED <<Build, settings, cookieAuth, launch, tasks>>

HideRegisterModal ==
    /\ auth' = [auth EXCEPT !.isRegisterModalVisible = FALSE]
    /\ UNCHANGED <<Build, settings, cookieAuth, launch, tasks>>

\* the register button of RegisterModal: handleRegister calls register(...)
Register ==
    /\ auth.isRegisterModalVisible
    /\ \E id \in TaskIds :
          /\ IsFree(id)
          /\ Begin(id, Out(auth, [NewTask("register", UrlOther)
                                     EXCEPT !.pc = "apiRegister"]))
    /\ UNCHANGED <<Build, settings, cookieAuth, launch>>

\* the requests of API.register settle
RegisterSettles ==
    \E id \in TaskIds, r \in RegisterAnswers \cup RetryAnswers :
       /\ \/ AtPc(id, {"apiRegister"}) /\ r \in RegisterAnswers
          \/ AtPc(id, {"registerRetry"}) /\ r \in RetryAnswers
       /\ LET t == tasks[id] IN
          IF t.pc = "apiRegister"
          THEN Apply(id, apiRegister(auth, t, r))
          ELSE Apply(id, apiRegisterRetry(auth, t, r))
       /\ UNCHANGED <<Build, settings, cookieAuth, launch>>

\* a setTimeout of a suspended task fires
TimerFires ==
    \E id \in TaskIds :
       /\ AtPc(id, {"cfgWait", "retryDelay", "successDelay", "cookieDelay", "launchDelay"})
       /\ LET t == tasks[id] IN
          Apply(id,
             CASE t.pc = "cfgWait"      -> checkConfigWait(storeV, layoutV, auth, t, settings)
               [] t.pc = "retryDelay"   -> Out(auth, checkRetry(t))
               [] t.pc = "successDelay" -> successDelayElapsed(storeV, layoutV, auth, t, settings)
               [] t.pc = "cookieDelay"  -> cookieDelayElapsed(storeV, layoutV, auth, t, settings)
               [] t.pc = "launchDelay"  ->
                    handleOAuthDeepLink(storeV, layoutV, auth, t, settings))
       /\ UNCHANGED <<Build, settings, cookieAuth, launch>>

\* Cookies.get settles: it reports what the cookie store holds, or throws
CookiesGetSettles ==
    \E id \in TaskIds, r \in {"auth", "none", "throw"} :
       /\ AtPc(id, {"probe"})
       /\ r = "auth" => cookieAuth
       /\ r = "none" => ~cookieAuth
       /\ Apply(id, checkProbe(storeV, layoutV, auth, tasks[id], r))
       /\ UNCHANGED <<Build, settings, cookieAuth, launch>>

\* api.login() settles
LoginSettles ==
    \E id \in TaskIds, r \in {"ok", "fail", "reject"} :
       /\ AtPc(id, {"login"})
       /\ Apply(id, checkLogin(storeV, layoutV, auth, tasks[id], r))
       /\ UNCHANGED <<Build, settings, cookieAuth, launch>>

\* the requests of API.login settle, one by one
ApiLoginSettles ==
    \E id \in TaskIds, r \in LoginResponses \cup LoginRetryResponses :
       /\ \/ AtPc(id, {"login"}) /\ r \in LoginResponses
          \/ AtPc(id, {"loginRetry"}) /\ r \in LoginRetryResponses
       /\ LET t == tasks[id] IN
          IF t.pc = "login"
          THEN Apply(id, apiLogin(storeV, layoutV, auth, t, r))
          ELSE Apply(id, apiLoginRetry(storeV, layoutV, auth, t, r))
       /\ UNCHANGED <<Build, settings, cookieAuth, launch>>

\* the exchange request of a callback settles
ExchangeSettles ==
    \E id \in TaskIds, r \in {"ok", "fail", "bad", "reject"} :
       /\ \/ AtPc(id, {"exchange"}) /\ r \in {"ok", "fail"}
          \/ AtPc(id, {"exchangeToken"}) /\ r \in {"ok", "bad", "reject"}
       /\ LET t == tasks[id] IN
          IF t.pc = "exchange"
          THEN Apply(id, callbackExchanged(storeV, layoutV, auth, t, settings, r))
          ELSE Apply(id, layoutExchanged(storeV, auth, t, r))
       /\ UNCHANGED <<Build, settings, cookieAuth, launch>>

\* api.startLinuxDoOAuth() settles
FetchLinkSettles ==
    \E id \in TaskIds, r \in FetchedLinks \cup {"reject"} :
       /\ AtPc(id, {"fetchLink"})
       /\ Apply(id, startFetched(storeV, auth, tasks[id], r))
       /\ UNCHANGED <<Build, settings, cookieAuth, launch>>

\* Linking.canOpenURL / Linking.openURL settles
LinkingSettles ==
    \E id \in TaskIds, r \in {"yes", "no", "ok", "throw"} :
       /\ \/ AtPc(id, {"canOpen", "canOpenBrowser"}) /\ r \in {"yes", "no", "throw"}
          \/ AtPc(id, {"open", "openBrowser", "openHttp"}) /\ r \in {"ok", "throw"}
       /\ LET t == tasks[id] IN
          Apply(id,
             CASE t.pc = "canOpen"        -> startCanOpen(storeV, auth, t, r)
               [] t.pc = "open"           -> startOpen(storeV, auth, t, r)
               [] t.pc = "canOpenBrowser" -> startCanOpenBrowser(auth, t, r)
               [] t.pc = "openBrowser"    -> startOpenBrowser(storeV, auth, t, r)
               [] t.pc = "openHttp"       -> startOpenHttp(storeV, auth, t, r))
       /\ UNCHANGED <<Build, settings, cookieAuth, launch>>

\* api.logout() settles
LogoutSettles ==
    \E id \in TaskIds, r \in {"ok", "reject"} :
       /\ AtPc(id, {"apiLogout"})
       /\ Apply(id, logoutSettled(auth, [tasks[id] EXCEPT !.loginResult = r], r))
       /\ UNCHANGED <<Build, settings, cookieAuth, launch>>

\* Cookies.clearAll() resolves: the cookie store is empty
ClearAllSettles ==
    \E id \in TaskIds :
       /\ AtPc(id, {"clearAll"})
       /\ Apply(id, logoutCleared(auth, tasks[id]))
       /\ cookieAuth' = FALSE
       /\ UNCHANGED <<Build, settings, launch>>

\* the platform or the browser writes or drops the auth cookie
CookieChanges ==
    /\ cookieAuth' = ~cookieAuth
    /\ UNCHANGED <<Build, auth, settings, launch, tasks>>

\* the settings store finishes loading the server configuration
ConfigLoaded ==
    /\ settings.isLoadingServerConfig
    /\ \E st \in StorageTypes :
          settings' = [settings EXCEPT !.isLoadingServerConfig = FALSE,
                                       !.StorageType = st]
    /\ UNCHANGED <<Build, auth, cookieAuth, launch, tasks>>

Next ==
    \/ ServerAddressEffect
    \/ HandleDeepLink
    \/ LaunchUrl
    \/ StartOAuth
    \/ Logout
    \/ ClearOAuthUrl
    \/ ShowLoginModal
    \/ HideLoginModal
    \/ TimerFires
    \/ CookiesGetSettles
    \/ LoginSettles
    \/ ExchangeSettles
    \/ FetchLinkSettles
    \/ LinkingSettles
    \/ LogoutSettles
    \/ ClearAllSettles
    \/ CookieChanges

Spec == Init /\ [][Next]_vars

\* the current store has no exchange request and no link request, and the
\* runs with overlapping operations leave the modal buttons alone
NextConc ==
    \/ ServerAddressEffect
    \/ HandleDeepLink
    \/ LaunchUrl
    \/ StartOAuth
    \/ Logout
    \/ ClearOAuthUrl
    \/ TimerFires
    \/ CookiesGetSettles
    \/ LoginSettles
    \/ LinkingSettles
    \/ LogoutSettles
    \/ ClearAllSettles
    \/ CookieChanges

SpecConc == InitConc /\ [][NextConc]_vars

\* every timer fires and every collaborator call settles
Responsive ==
    /\ WF_vars(TimerFires)
    /\ WF_vars(CookiesGetSettles)
    /\ WF_vars(LoginSettles)
    /\ WF_vars(ExchangeSettles)
    /\ WF_vars(FetchLinkSettles)
    /\ WF_vars(LinkingSettles)
    /\ WF_vars(LogoutSettles)
    /\ WF_vars(ClearAllSettles)

SpecLive == Init /\ [][Next]_vars /\ Responsive

\* the session check while the server configuration loads
NextLoading ==
    \/ ServerAddressEffect
    \/ ConfigLoaded
    \/ ShowLoginModal
    \/ HideLoginModal
    \/ TimerFires
    \/ CookiesGetSettles
    \/ LoginSettles
    \/ CookieChanges

SpecLoading == InitLoading /\ [][NextLoading]_vars

\* the registration screen: the modals, register, the session check and the
\* deep-link callback, one operation at a time
NextRegister ==
    \/ ShowRegisterModal
    \/ HideRegisterModal
    \/ ShowLoginModal
    \/ HideLoginModal
    \/ Register
    \/ RegisterSettles
    \/ ServerAddressEffect
    \/ HandleDeepLink
    \/ TimerFires
    \/ CookiesGetSettles
    \/ LoginSettles
    \/ ExchangeSettles
    \/ CookieChanges

SpecRegister == Init /\ [][NextRegister]_vars

\* the requests of the API client: the auto-login of the session check and
\* the registration, each request settling on its own
NextApi ==
    \/ ServerAddressEffect
    \/ TimerFires
    \/ CookiesGetSettles
    \/ ApiLoginSettles
    \/ ShowRegisterModal
    \/ HideRegisterModal
    \/ Register
    \/ RegisterSettles
    \/ CookieChanges

SpecApi == Init /\ [][NextApi]_vars

----------------------------------------------------------------------------
(* Properties *)

\* the step in which the operation of slot id returns
Returns(id) == tasks'[id].pc = "done" /\ tasks'[id] # tasks[id]

\* a step of the operation of slot id
Steps(id) == tasks'[id] # tasks[id] /\ tasks'[id].pc # "idle"

\* C1: a callback whose verification ran on a cookie-mode server without any
\* probe reporting the auth cookie resolves to false, and isLoggedIn is
\* false when it resolves
C1_TimeoutFabricatesNoSuccess ==
    [][\A id \in TaskIds :
          (/\ Returns(id)
           /\ tasks'[id].op = "deeplink"
           /\ settings.StorageType = "redis"
           /\ tasks'[id].checks > 0
           /\ tasks'[id].probes > 0
           /\ ~tasks'[id].sawAuth)
          => tasks'[id].result = "false" /\ ~auth'.isLoggedIn]_vars

\* C2: a step that turns isLoggedIn from false to true is (a) an auto-login
\* that answered ok on a localstorage server, (b) a cookie probe that
\* reported the auth cookie, or (c) the return of a callback with result true
\* after at least one probe of its verification
C2_LoginOnlyOnEvidence ==
    [][(~auth.isLoggedIn /\ auth'.isLoggedIn)
       => \E id \in TaskIds :
             /\ Steps(id)
             /\ \/ /\ tasks[id].pc = "login"
                   /\ tasks[id].cfg = "localstorage"
                   /\ tasks'[id].loginResult = "ok"
                \/ /\ tasks[id].pc = "probe"
                   /\ tasks'[id].probes = tasks[id].probes + 1
                   /\ cookieAuth
                   /\ tasks'[id].sawAuth
                \/ /\ Returns(id)
                   /\ tasks'[id].op = "deeplink"
                   /\ tasks'[id].result = "true"
                   /\ tasks'[id].probes > 0]_vars

C4_OneOperationInFlight ==
    \A i, j \in TaskIds :
       (InFlight(tasks[i]) /\ InFlight(tasks[j])) => i = j

\* C5: at most one OAuth callback handler (from a live deep link or from the
\* launch URL) is between its start and its return at any time
C5_OneCallbackHandler ==
    \A i, j \in TaskIds :
       (/\ InFlight(tasks[i]) /\ tasks[i].op = "deeplink"
        /\ InFlight(tasks[j]) /\ tasks[j].op = "deeplink") => i = j

\* C6: a startLinuxDoOAuth called while isOAuthInProgress is true requests no
\* authorization link from the server and opens no browser
C6_NoSecondStart ==
    \A id \in TaskIds :
       (tasks[id].op = "start" /\ tasks[id].wasInProgress)
       => ~tasks[id].fetched /\ ~tasks[id].opened

\* C7: when the callback handler returns true, isLoggedIn is true, the login
\* modal is hidden, isOAuthInProgress is false and oAuthUrl is undefined
C7_TrueMeansLoggedIn ==
    [][\A id \in TaskIds :
          (/\ Returns(id)
           /\ tasks'[id].op = "deeplink"
           /\ tasks'[id].result = "true")
          => /\ auth'.isLoggedIn
             /\ ~auth'.isLoginModalVisible
             /\ ~auth'.isOAuthInProgress
             /\ auth'.oAuthUrl = Undefined]_vars

\* C8: with a server address and a server configuration, a callback whose
\* exchange succeeded returns true with isLoggedIn true and isOAuthInProgress
\* false when one of its probes reported the auth cookie, and also when it
\* returns without having probed a cookie store that holds the auth cookie
C8_CookieSeenCompletes ==
    [][\A id \in TaskIds :
          (/\ Returns(id)
           /\ tasks'[id].op = "deeplink"
           /\ settings.apiBaseUrl
           /\ settings.StorageType # "none"
           /\ \/ tasks'[id].sawAuth
              \/ /\ tasks'[id].exchanged = "ok"
                 /\ tasks'[id].probes = 0
                 /\ cookieAuth /\ cookieAuth')
          => /\ tasks'[id].result = "true"
             /\ auth'.isLoggedIn
             /\ ~auth'.isOAuthInProgress]_vars

\* the callback links without an error parameter that lack the token and
\* the code/state pair
UrlsMissingParams == {UrlBare, UrlNoToken}

\* C9: the handler of a callback link without error, token and code/state
\* never turns isLoggedIn to true, and returns false with isOAuthInProgress
\* false
C9_MissingParamsFailSafely ==
    [][\A id \in TaskIds :
          (/\ Steps(id)
           /\ tasks'[id].op = "deeplink"
           /\ tasks'[id].url \in UrlsMissingParams)
          => /\ auth'.isLoggedIn => auth.isLoggedIn
             /\ Returns(id) => /\ tasks'[id].result = "false"
                                /\ ~auth'.isOAuthInProgress]_vars

\* C10: the handler of a parseable callback link with an error parameter
\* leaves isLoggedIn as it is, sends no exchange request, probes no cookie,
\* and returns false with isOAuthInProgress false and a notification whose
\* text contains the decoded error
C10_ErrorParamFails ==
    [][\A id \in TaskIds :
          (/\ Steps(id)
           /\ tasks'[id].op = "deeplink"
           /\ tasks'[id].url.parse
           /\ tasks'[id].url.error # NoParam)
          => /\ auth'.isLoggedIn = auth.isLoggedIn
             /\ tasks'[id].exchanged = "no"
             /\ tasks'[id].probes = 0
             /\ Returns(id) =>
                   /\ tasks'[id].result = "false"
                   /\ ~auth'.isOAuthInProgress
                   /\ \E n \in tasks'[id].toasts :
                         Contains(n.text2,
                                  searchParamsGet(tasks'[id].url, "error"))]_vars

\* C11: a callback link with success=true and a token whose exchange request
\* failed returns false with isOAuthInProgress false, without a cookie probe
\* and without turning isLoggedIn to true
C11_ExchangeFailureFails ==
    [][\A id \in TaskIds :
          (/\ Returns(id)
           /\ tasks'[id].op = "deeplink"
           /\ searchParamsGet(tasks'[id].url, "success") = <<"true">>
           /\ Truthy(searchParamsGet(tasks'[id].url, "token"))
           /\ tasks'[id].exchanged = "failed")
          => /\ tasks'[id].result = "false"
             /\ ~auth'.isOAuthInProgress
             /\ tasks'[id].probes = 0
             /\ auth'.isLoggedIn => auth.isLoggedIn]_vars

\* C12: startLinuxDoOAuth returns normally and the callback handler returns
\* a boolean; a start that failed, and a handler of a parseable link that
\* returned false, has shown a notification and leaves isOAuthInProgress
\* false
C12_FailuresEndFailed ==
    [][\A id \in TaskIds :
          Returns(id) =>
             /\ tasks'[id].op = "deeplink" =>
                   /\ tasks'[id].result \in {"true", "false"}
                   /\ (tasks'[id].result = "false" /\ tasks'[id].url.parse) =>
                         /\ tasks'[id].toasts # {}
                         /\ ~auth'.isOAuthInProgress
             /\ tasks'[id].op = "start" =>
                   /\ tasks'[id].result = "void"
                   /\ tasks'[id].toasts # {}
                   /\ ("StartFailed" \in {n.text1 : n \in tasks'[id].toasts}) =>
                         ~auth'.isOAuthInProgress]_vars

\* C13: the handler of a link that cannot be parsed changes none of
\* isOAuthInProgress, oAuthUrl and isLoggedIn, and returns false with a
\* notification
C13_BadLinkKeepsPhase ==
    [][\A id \in TaskIds :
          (/\ Steps(id)
           /\ tasks'[id].op = "deeplink"
           /\ ~tasks'[id].url.parse)
          => /\ auth'.isOAuthInProgress = auth.isOAuthInProgress
             /\ auth'.oAuthUrl = auth.oAuthUrl
             /\ auth'.isLoggedIn = auth.isLoggedIn
             /\ Returns(id) => /\ tasks'[id].result = "false"
                                /\ tasks'[id].toasts # {}]_vars

\* C14: whenever isOAuthInProgress is false, oAuthUrl is undefined
C14_LinkOnlyInProgress ==
    ~auth.isOAuthInProgress => auth.oAuthUrl = Undefined

\* C15: with timers that fire and collaborators that answer, every operation
\* in flight returns; no operation makes more cookie probes than the
\* attempt budget of its build; and a callback that returns after its probes
\* were used up without the cookie leaves isOAuthInProgress false
C15_BoundedVerification ==
    /\ \A id \in TaskIds : InFlight(tasks[id]) ~> (tasks[id].pc = "done")
    /\ [](\A id \in TaskIds : tasks[id].probes <= maxRetries(storeV))
    /\ [][\A id \in TaskIds :
            (/\ Returns(id)
             /\ tasks'[id].op = "deeplink"
             /\ tasks'[id].probes = maxRetries(storeV)
             /\ ~tasks'[id].sawAuth)
            => ~auth'.isOAuthInProgress]_vars

\* a callback of the six-probe build has returned after six probes without
\* the cookie
C15_Witness ==
    /\ storeV = "P0"
    /\ \E id \in TaskIds :
          /\ tasks[id].op = "deeplink"
          /\ tasks[id].pc = "done"
          /\ tasks[id].probes = maxRetriesP0
          /\ ~tasks[id].sawAuth
          /\ ~auth.isOAuthInProgress

\* C16: after clearOAuthUrl was called while a callback handler was in its
\* probe loop, that handler starts no further cookie probe and does not
\* change isLoggedIn
C16_CancelStopsPolling ==
    [][\A id \in TaskIds :
          (tasks[id].cancelled /\ Steps(id))
          => /\ tasks'[id].pc # "probe"
             /\ auth'.isLoggedIn = auth.isLoggedIn]_vars

\* C17: from every reachable store state, for every answer of the cookie
\* store and of the auto-login, a checkLoginStatus followed by a second one
\* with the same answers leaves isLoggedIn after the second as after the
\* first
C17_IdempotentCheck ==
    \A cr \in CookieAnswers, lr \in LoginAnswers :
       LET a1 == checkLoginStatus(storeV, auth, settings, cr, lr).a
           a2 == checkLoginStatus(storeV, a1, settings, cr, lr).a
       IN  a2.isLoggedIn = a1.isLoggedIn

\* a logged-in state from which the first check logs the user out, and one
\* from which an auto-login answering {ok:false} leaves the user logged in
C17_Witness ==
    /\ auth.isLoggedIn
    /\ settings.apiBaseUrl
    /\ settings.StorageType = "localstorage"
    /\ ~checkLoginStatus(storeV, auth, settings, "none", "reject").a.isLoggedIn
    /\ checkLoginStatus(storeV, auth, settings, "none", "fail").a.isLoggedIn

\* C18: when a checkLoginStatus run with a cookie-backed StorageType
\* returns, isLoggedIn is whether its last cookie probe held the auth
\* cookie, whatever isLoggedIn was before, and when that is false the login
\* modal is visible
C18_CookieModeMirrorsCookie ==
    [][\A id \in TaskIds :
          (/\ Returns(id)
           /\ tasks[id].op = "check"
           /\ tasks[id].pc = "probe"
           /\ tasks[id].cfg \notin {"none", "localstorage"})
          => /\ auth'.isLoggedIn = tasks'[id].sawAuth
             /\ (~auth'.isLoggedIn => auth'.isLoginModalVisible)]_vars

\* C19: with StorageType "localstorage", a checkLoginStatus whose cookie
\* reads find no auth cookie calls api.login() and, when that answers
\* {ok:true}, returns with isLoggedIn true; one that finds the auth cookie
\* returns with isLoggedIn true without calling api.login(); whatever
\* isLoggedIn was before
C19_LocalstorageAutoLogin ==
    /\ [](settings.apiBaseUrl /\ settings.StorageType = "localstorage"
           => /\ LET o == checkLoginStatus(storeV, auth, settings, "none", "ok")
                 IN  o.t.loginResult = "ok" /\ o.a.isLoggedIn
              /\ \A lr \in LoginAnswers :
                    LET o == checkLoginStatus(storeV, auth, settings, "auth", lr)
                    IN  o.t.loginResult = "none" /\ o.a.isLoggedIn)
    /\ [][\A id \in TaskIds :
            (/\ Steps(id)
             /\ tasks[id].op = "check"
             /\ tasks[id].cfg = "localstorage")
            => /\ (tasks[id].pc = "probe" /\ tasks'[id].sawAuth)
                  => /\ Returns(id)
                     /\ auth'.isLoggedIn
                     /\ tasks'[id].loginResult = "none"
               /\ (tasks[id].pc = "login" /\ tasks'[id].loginResult = "ok")
                  => Returns(id) /\ auth'.isLoggedIn]_vars

\* a check that found no cookie, called api.login(), got {ok:true} and
\* returned logged in
C19_Witness ==
    \E id \in TaskIds :
       /\ tasks[id].op = "check"
       /\ tasks[id].pc = "done"
       /\ settings.StorageType = "localstorage"
       /\ ~tasks[id].sawAuth
       /\ tasks[id].loginResult = "ok"
       /\ auth.isLoggedIn

\* C20: with StorageType "localstorage" and no auth cookie, when the
\* api.login() of checkLoginStatus rejects or answers {ok:false}, the check
\* returns with isLoggedIn false and the login modal visible, whatever
\* isLoggedIn was before
C20_AutoLoginFailureLogsOut ==
    [][\A id \in TaskIds :
          (/\ Returns(id)
           /\ tasks[id].op = "check"
           /\ tasks[id].pc = "login"
           /\ tasks'[id].loginResult \in {"fail", "reject"})
          => /\ ~auth'.isLoggedIn
             /\ auth'.isLoginModalVisible]_vars

\* C21: an error inside checkLoginStatus is recovered locally.  From every
\* reachable store state, a check on a configured server whose cookie reads
\* throw (an error that is not UNAUTHORIZED) returns with isLoggedIn false
\* and the login modal as it was, and a check whose api.login() rejects
\* returns with isLoggedIn false
C21_ErrorsRecoveredLocally ==
    \A cr \in CookieAnswers, lr \in LoginAnswers :
       LET o == checkLoginStatus(storeV, auth, settings, cr, lr) IN
       (settings.apiBaseUrl /\ settings.StorageType # "none")
       => /\ o.t.pc = "done"
          /\ cr = "throw"
             => /\ ~o.a.isLoggedIn
                /\ o.a.isLoginModalVisible = auth.isLoginModalVisible
          /\ o.t.loginResult = "reject" => ~o.a.isLoggedIn

\* C22: a checkLoginStatus called without a server address (the callback
\* handlers pass the apiBaseUrl of the settings store, which is not set)
\* returns in the same step with isLoggedIn false, the login modal and the
\* register modal hidden, no Cookies.get, no api.login() and no toast of its own
C22_NoAddressHidesPrompts ==
    [][\A id \in TaskIds :
          (/\ Steps(id)
           /\ tasks'[id].checks = tasks[id].checks + 1
           /\ ~settings.apiBaseUrl)
          => /\ tasks'[id].pc = "done"
             /\ ~auth'.isLoggedIn
             /\ ~auth'.isLoginModalVisible
             /\ ~auth'.isRegisterModalVisible
             /\ tasks'[id].probes = 0
             /\ tasks'[id].loginResult = "none"
             /\ Toast("ConfigError", <<>>) \notin tasks'[id].toasts]_vars

\* C23: a checkLoginStatus on a configured server that returns without any
\* Cookies.get has found the server configuration without a StorageType,
\* at once or after it waited for the configuration to load: it has shown the
\* configuration toast and its returning step leaves the whole store state,
\* isLoggedIn and both modal flags included, as it was
C23_NoStorageTypeNotifies ==
    [][\A id \in TaskIds :
          (/\ Returns(id)
           /\ tasks'[id].op = "check"
           /\ settings.apiBaseUrl
           /\ tasks'[id].probes = 0)
          => /\ auth' = auth
             /\ Toast("ConfigError", <<>>) \in tasks'[id].toasts]_vars

\* C24: register resolves to true exactly when the server answered success
\* ({success:true} with or without needsApproval, or {ok:true}); when it
\* does, the register modal is hidden and the login modal shown, and the
\* returning step leaves isLoggedIn as it was
C24_RegisterTrueOnSuccess ==
    [][\A id \in TaskIds :
          (Returns(id) /\ tasks'[id].op = "register")
          => /\ tasks'[id].result = "true"
                <=> tasks'[id].regResult \in {"success", "approval", "legacyOk"}
             /\ tasks'[id].result = "true"
                => /\ ~auth'.isRegisterModalVisible
                   /\ auth'.isLoginModalVisible
                   /\ auth'.isLoggedIn = auth.isLoggedIn]_vars

\* a logged-in user whose registration awaits approval: register returned
\* true, the register modal is hidden and the login modal is shown
C24_Witness ==
    \E id \in TaskIds :
       /\ tasks[id].op = "register"
       /\ tasks[id].pc = "done"
       /\ tasks[id].regResult = "approval"
       /\ tasks[id].result = "true"
       /\ auth.isLoggedIn
       /\ ~auth.isRegisterModalVisible
       /\ auth.isLoginModalVisible

\* C25: when the registration fails (the server answers a failure, an HTTP
\* error or 401, or the request fails), register resolves to false with a
\* failure toast, and no step of it changes the store state: the register
\* modal, the login modal and isLoggedIn stay as they were
C25_RegisterFailureKeepsState ==
    [][\A id \in TaskIds :
          (/\ Steps(id)
           /\ tasks'[id].op = "register"
           /\ tasks'[id].regResult \notin {"success", "approval", "legacyOk"})
          => /\ auth' = auth
             /\ Returns(id)
                => /\ tasks'[id].result = "false"
                   /\ \E x \in tasks'[id].toasts : x.text1 = "RegisterFailed"]_vars

\* a registration whose request failed returned false with the register
\* modal still open
C25_Witness ==
    \E id \in TaskIds :
       /\ tasks[id].op = "register"
       /\ tasks[id].pc = "done"
       /\ tasks[id].regResult = "network"
       /\ tasks[id].result = "false"
       /\ auth.isRegisterModalVisible
       /\ ~auth.isLoginModalVisible

\* the step in which startLinuxDoOAuth of slot id returns after
\* Linking.canOpenURL(link) answered no or threw, or Linking.openURL(link)
\* threw: it returns from the first way without the browser toast, or from
\* one of the later ways of part_002
ReturnsUnopened(id) ==
    /\ Returns(id)
    /\ tasks'[id].op = "start"
    /\ \/ /\ tasks[id].pc \in {"canOpen", "open"}
          /\ Toast("BrowserOpened", <<>>) \notin tasks'[id].toasts
       \/ tasks[id].pc \in {"openBrowser", "openHttp"}

\* C26: when the opener does not support the authorization link or opening
\* it throws, startLinuxDoOAuth returns without a failure toast, with
\* isOAuthInProgress true and oAuthUrl holding the authorization link
C26_UnopenedLinkStaysLive ==
    [][\A id \in TaskIds :
          ReturnsUnopened(id)
          => /\ Toast("StartFailed", <<"LINK_ERROR">>) \notin tasks'[id].toasts
             /\ auth'.isOAuthInProgress
             /\ auth'.oAuthUrl = tasks[id].link]_vars

\* C27: a startLinuxDoOAuth that returns before any Linking call (the link
\* could not be fetched, or it is empty or invalid) has shown the failure
\* toast and leaves isOAuthInProgress false and oAuthUrl undefined, also when
\* an earlier attempt had stored a link, and its steps leave isLoggedIn alone
C27_EarlyFailureClearsLink ==
    [][\A id \in TaskIds :
          (/\ Returns(id)
           /\ tasks'[id].op = "start"
           /\ tasks[id].pc \notin {"canOpen", "open", "canOpenBrowser",
                                   "openBrowser", "openHttp"})
          => /\ Toast("StartFailed", <<"LINK_ERROR">>) \in tasks'[id].toasts
             /\ ~auth'.isOAuthInProgress
             /\ auth'.oAuthUrl = Undefined
             /\ auth'.isLoggedIn = auth.isLoggedIn]_vars

\* C28: when Linking.canOpenURL(link) answered yes and Linking.openURL(link)
\* resolved, startLinuxDoOAuth returns with isOAuthInProgress true and
\* oAuthUrl undefined, also when an earlier attempt had stored a link
C28_OpenedLinkAwaitsCallback ==
    [][\A id \in TaskIds :
          (/\ Returns(id)
           /\ tasks'[id].op = "start"
           /\ tasks[id].pc = "open"
           /\ Toast("BrowserOpened", <<>>) \in tasks'[id].toasts)
          => /\ auth'.isOAuthInProgress
             /\ auth'.oAuthUrl = Undefined]_vars

\* a syntactically valid URL on the identity provider's domain; "server" is
\* the link the API client of api.ts builds from the configured server
\* address, `${baseURL}/api/oauth/authorize?mobile=1`
IsProviderLink(k) == k \in {"connect", "linuxdo"}

\* C29: every link startLinuxDoOAuth hands to Linking or stores in oAuthUrl
\* is a valid URL on the identity provider's domain: a malformed link and a
\* link on a foreign domain are rejected before the opener sees them
C29_OnlyProviderLinksOpened ==
    /\ \A id \in TaskIds :
          tasks[id].link # "none" => IsProviderLink(tasks[id].link)
    /\ auth.oAuthUrl # Undefined => IsProviderLink(auth.oAuthUrl)

\* the classification the specification gives: the link starts with the app
\* scheme and callback path, or carries one of the five query parameters
IsCallbackBySpec(u) ==
    \/ u.scheme
    \/ u.code # NoParam \/ u.state # NoParam \/ u.success # NoParam
    \/ u.token # NoParam \/ u.error # NoParam

\* C30: the live 'url' event and the cold-launch URL are classified by the
\* same test, which accepts a URL exactly when it starts with the app scheme
\* and callback path or carries code, state, success, token or error; every
\* callback that is dispatched, on either path, is for such a URL
C30_SameClassification ==
    /\ [](\A u \in ClassifiedUrls : isOAuthCallback(layoutV, u) <=> IsCallbackBySpec(u))
    /\ [][\A id \in TaskIds :
            (/\ ~InFlight(tasks[id])
             /\ InFlight(tasks'[id]) \/ Returns(id)
             /\ tasks'[id].op = "deeplink")
            => IsCallbackBySpec(tasks'[id].url)]_vars

\* C31 as stated: a checkLoginStatus on a cookie-backed server that finds the
\* auth cookie leaves the login modal as it was, and the only steps that
\* change the login modal of a user who is logged in before and after them
\* are logout and the explicit show and hide of the modal
C31_OnlyLogoutChangesPrompt ==
    /\ [][\A id \in TaskIds :
            (/\ Steps(id)
             /\ tasks'[id].op = "check"
             /\ settings.StorageType = "redis"
             /\ Returns(id) => tasks'[id].sawAuth)
            => auth'.isLoginModalVisible = auth.isLoginModalVisible]_vars
    /\ [][(/\ auth.isLoggedIn /\ auth'.isLoggedIn
           /\ auth'.isLoginModalVisible # auth.isLoginModalVisible)
          => \/ tasks' = tasks
             \/ \E id \in TaskIds : Steps(id) /\ tasks'[id].op = "logout"]_vars

\* C31, amended: a checkLoginStatus on a cookie-backed server that finds the
\* auth cookie returns with isLoggedIn true and the login modal as it was
\* before the call, step by step and as a whole call from every reachable
\* store state; and no step of a checkLoginStatus changes the login modal of
\* a user who is logged in before and after it
C31_CheckKeepsPrompt ==
    /\ [][\A id \in TaskIds :
            (/\ Steps(id)
             /\ tasks'[id].op = "check"
             /\ settings.StorageType = "redis"
             /\ Returns(id) => tasks'[id].sawAuth)
            => /\ auth'.isLoginModalVisible = auth.isLoginModalVisible
               /\ Returns(id) => auth'.isLoggedIn]_vars
    /\ [](\A lr \in LoginAnswers :
            LET o == checkLoginStatus(storeV, auth, settings, "auth", lr) IN
            (settings.apiBaseUrl /\ settings.StorageType = "redis")
            => /\ o.t.sawAuth
               /\ o.a.isLoggedIn
               /\ o.a.isLoginModalVisible = auth.isLoginModalVisible)
    /\ [][(/\ auth.isLoggedIn /\ auth'.isLoggedIn
           /\ auth'.isLoginModalVisible # auth.isLoginModalVisible)
          => \A id \in TaskIds : Steps(id) => tasks'[id].op # "check"]_vars

\* a check on a cookie-backed server found the auth cookie and returned with
\* the login modal still visible
C31_Witness ==
    \E id \in TaskIds :
       /\ tasks[id].op = "check"
       /\ tasks[id].pc = "done"
       /\ settings.StorageType = "redis"
       /\ tasks[id].sawAuth
       /\ auth.isLoggedIn
       /\ auth.isLoginModalVisible

\* C32: a checkLoginStatus that starts while the server configuration is
\* loading waits in rounds of 100 ms.  A round that finds the loading
\* finished goes on with the configuration of that moment; a round that
\* finds it still loading waits again while less than 3000 ms have passed,
\* and after 3000 ms (30 rounds) goes on with the configuration read at
\* entry and shows no toast
C32_BoundedConfigWait ==
    /\ [](\A id \in TaskIds :
            tasks[id].pc = "cfgWait"
            => /\ tasks[id].waitTime < maxWaitTime
               /\ tasks[id].waitTime % checkInterval = 0)
    /\ [][\A id \in TaskIds :
            (/\ ~InFlight(tasks[id]) /\ tasks'[id] # tasks[id]
             /\ tasks'[id].op = "check"
             /\ settings.isLoadingServerConfig)
            => tasks'[id].pc = "cfgWait" /\ tasks'[id].waitTime = 0]_vars
    /\ [][\A id \in TaskIds :
            (Steps(id) /\ tasks[id].pc = "cfgWait")
            => LET w   == tasks[id].waitTime + checkInterval
                   cfg == IF ~settings.isLoadingServerConfig
                          THEN settings.StorageType ELSE tasks[id].cfg
               IN  IF settings.isLoadingServerConfig /\ w < maxWaitTime
                   THEN /\ tasks'[id].pc = "cfgWait"
                        /\ tasks'[id].waitTime = w
                        /\ auth' = auth
                   ELSE /\ tasks'[id].pc # "cfgWait"
                        /\ IF cfg = "none"
                           THEN Returns(id) /\ tasks'[id].probes = 0
                           ELSE tasks'[id].pc = "probe" /\ tasks'[id].cfg = cfg
                        /\ settings.isLoadingServerConfig
                           => tasks'[id].toasts = {}]_vars

\* a check waited 3000 ms for a configuration that is still loading and went
\* on to read the cookies with the configuration it had read at entry
C32_Witness ==
    \E id \in TaskIds :
       /\ tasks[id].op = "check"
       /\ tasks[id].pc = "probe"
       /\ tasks[id].wasLoading
       /\ tasks[id].waitTime = maxWaitTime
       /\ settings.isLoadingServerConfig
       /\ tasks[id].toasts = {}

\* C33: in the builds with the retry loop (part_000 with 6 attempts, part_001
\* with 5), one operation makes at most maxRetries cookie reads.  A read that
\* reports the auth cookie is the last one and no delay follows it; a read
\* that reports no auth cookie or throws is followed by the retry delay and
\* another read while fewer than maxRetries reads were made, and by neither
\* after the last one
C33_BoundedCookieProbes ==
    /\ [](\A id \in TaskIds :
            storeV \in {"P0", "P1"}
            => /\ tasks[id].probes <= maxRetries(storeV)
               /\ tasks[id].pc = "probe"
                  => tasks[id].probes = tasks[id].i /\ ~tasks[id].sawAuth
               /\ tasks[id].pc = "retryDelay"
                  => /\ tasks[id].probes = tasks[id].i + 1
                     /\ tasks[id].probes < maxRetries(storeV)
                     /\ ~tasks[id].sawAuth)
    /\ [][\A id \in TaskIds :
            (/\ Steps(id)
             /\ tasks'[id] # [tasks[id] EXCEPT !.cancelled = TRUE]
             /\ storeV \in {"P0", "P1"})
            => /\ tasks[id].pc = "probe"
                  => /\ tasks'[id].probes = tasks[id].probes + 1
                     /\ IF ~tasks'[id].sawAuth
                           /\ tasks'[id].probes < maxRetries(storeV)
                        THEN tasks'[id].pc = "retryDelay"
                        ELSE tasks'[id].pc \notin {"retryDelay", "probe"}
               /\ tasks[id].pc = "retryDelay"
                  => /\ tasks'[id].pc = "probe"
                     /\ tasks'[id].probes = tasks[id].probes
               /\ tasks[id].pc \notin {"probe", "retryDelay"}
                  => tasks'[id].probes = tasks[id].probes
                     \/ tasks'[id].probes = 0]_vars

\* a check of part_001 saw the auth cookie on its third read and returned
\* after three reads
C33_Witness ==
    /\ storeV = "P1"
    /\ \E id \in TaskIds :
          /\ tasks[id].op = "check"
          /\ tasks[id].pc = "done"
          /\ tasks[id].probes = 3
          /\ tasks[id].sawAuth

\* C34: in the build whose callback handler verifies the session with
\* _waitForCookieAndRefreshStatus (part_001), a checkLoginStatus of the
\* verification that completes with isLoggedIn false while fewer than
\* maxAttempts checks were made is followed by another attempt: the handler
\* does not return at that step
C34_VerificationRetries ==
    [][\A id \in TaskIds :
          (/\ Steps(id)
           /\ storeV = "P1"
           /\ tasks'[id].op = "deeplink"
           /\ tasks[id].pc \in {"probe", "login", "cfgWait"}
           /\ tasks'[id].pc \notin {"probe", "retryDelay", "login", "cfgWait"}
           /\ ~auth'.isLoggedIn
           /\ tasks'[id].checks < maxAttemptsP1)
          => ~Returns(id)]_vars

\* the callback links with the legacy code and state parameters and neither
\* a token nor an error
IsCodeLink(u) ==
    /\ u.parse
    /\ u.code # NoParam /\ u.state # NoParam
    /\ u.token = NoParam /\ u.error = NoParam

\* C35: the handler of a callback link with code and state (no token, no
\* error) sends the exchange request of the API client; when the exchange
\* fails it returns false, and it returns true only after a checkLoginStatus
\* that left isLoggedIn true
C35_CodeLinkExchanged ==
    [][\A id \in TaskIds :
          (/\ Returns(id)
           /\ tasks'[id].op = "deeplink"
           /\ IsCodeLink(tasks'[id].url))
          => /\ tasks'[id].exchanged \in {"ok", "failed"}
             /\ tasks'[id].exchanged = "failed" => tasks'[id].result = "false"
             /\ tasks'[id].result = "true"
                => /\ tasks'[id].exchanged = "ok"
                   /\ tasks'[id].checks > 0
                   /\ auth'.isLoggedIn]_vars

\* C36: while the record of a callback handler that returned true is the
\* latest operation that returned (no operation was started since, no logout
\* is under way), isLoggedIn is true and the cookie store holds the auth
\* cookie, a step of a checkLoginStatus that was started before the handler
\* returned and was still suspended leaves isLoggedIn true
C36_StaleCheckKeepsLogin ==
    [][(/\ \E j \in TaskIds :
              /\ tasks[j].op = "deeplink"
              /\ tasks[j].pc = "done"
              /\ tasks[j].result = "true"
              /\ tasks'[j] = tasks[j]
        /\ \A k \in TaskIds : tasks[k].op # "logout"
        /\ auth.isLoggedIn
        /\ cookieAuth /\ cookieAuth'
        /\ \E id \in TaskIds :
              /\ Steps(id)
              /\ tasks[id].op = "check"
              /\ tasks[id].pc \in {"retryDelay", "probe", "login"})
       => auth'.isLoggedIn]_vars

\* C37: one call of the API client's register and one call of its login
\* send one POST each: no operation is ever waiting for a second POST of
\* /api/register or of /api/login, whatever status the first one met
C37_OnePostPerCall ==
    \A id \in TaskIds : tasks[id].pc \notin {"registerRetry", "loginRetry"}

\* C38: while no server address is configured, the handler of a callback
\* link with success=true and a token makes no cookie read and no step of
\* it changes isLoggedIn or the login modal; it returns false and has shown
\* an error toast and no success toast
C38_NoAddressFailsCallback ==
    [][\A id \in TaskIds :
          (/\ Steps(id)
           /\ tasks'[id].op = "deeplink"
           /\ searchParamsGet(tasks'[id].url, "success") = <<"true">>
           /\ Truthy(searchParamsGet(tasks'[id].url, "token"))
           /\ ~settings.apiBaseUrl)
          => /\ auth'.isLoggedIn = auth.isLoggedIn
             /\ auth'.isLoginModalVisible = auth.isLoginModalVisible
             /\ tasks'[id].probes = 0
             /\ Returns(id)
                => /\ tasks'[id].result = "false"
                   /\ tasks'[id].toasts # {}
                   /\ \A n \in tasks'[id].toasts : n.text1 # "OAuthSuccess"]_vars

====
